---------------------------- MODULE Spec2Model ----------------------------
(***************************************************************************)
(* Light-probe tetrahedral mesh of GlobalIllumination: incremental         *)
(* Delaunay construction (TetrahedralMesh::Define, AddTetrahedralMesh-     *)
(* Vertices) and the barycentric walk that samples it                      *)
(* (SampleLightProbeMesh, SampleAmbientSH).                                *)
(*                                                                         *)
(* Arithmetic.  Positions are points of a small integer lattice, and every *)
(* float quantity of the code is kept as an exact rational: a circumsphere *)
(* as (p0, num, D) with centre p0 + num / (2 D), a weight vector as four   *)
(* integer numerators over one positive denominator.  Float rounding is    *)
(* not modelled.  Array indices are the code's 0-based indices; sequence   *)
(* position i + 1 holds element i.                                         *)
(***************************************************************************)
EXTENDS Integers, Sequences, FiniteSets

VARIABLES
    pc,             \* "idle" | "adding" (inside Define) | "crashed"
    lightProbes,    \* lightProbesCollection_.worldPositions_ (one payload entry per position)
    vertices,       \* lightProbesMesh_.vertices_
    tetrahedrons,   \* lightProbesMesh_.tetrahedrons_
    hullNormals,    \* lightProbesMesh_.hullNormals_ (not normalised)
    badFlags,       \* badFlags of AddTetrahedralMeshVertices
    positions,      \* the span Define is inserting
    padding,        \* the padding Define was called with
    cursor,         \* number of positions already inserted
    aborted,        \* the build left through an "assert(0); return;" path
    hint,           \* the caller-owned hint token
    sample,         \* what the last SampleAmbientSH call did
    otherHint,      \* the hint token of a second caller
    otherSample,    \* what the second caller's last SampleAmbientSH call did
    insertion       \* the last pass of the insertion loop: what it started from and collected

vars == <<pc, lightProbes, vertices, tetrahedrons, hullNormals, badFlags,
          positions, padding, cursor, aborted, hint, sample,
          otherHint, otherSample, insertion>>

meshVars == <<lightProbes, vertices, tetrahedrons, hullNormals, badFlags,
              positions, padding, cursor, aborted, insertion>>

-----------------------------------------------------------------------------
(* Bounds of the model *)

\* Longest input of the exhaustive family (all sequences over Lattice).
MaxPoints == 3
\* Largest coordinate of the exhaustive family's lattice.
LatticeMax == 1
\* Largest padding Define is called with directly (0 .. MaxPadding).
MaxPadding == 1
\* Largest hint a caller seeds besides the sentinel (0 .. MaxSeed).
MaxSeed == 3
\* Largest coordinate, in halves, of a query position of the grid.
QueryMax == 4

-----------------------------------------------------------------------------
(* Vector3 *)

VSub(a, b) == <<a[1] - b[1], a[2] - b[2], a[3] - b[3]>>
VAdd(a, b) == <<a[1] + b[1], a[2] + b[2], a[3] + b[3]>>
VScale(k, a) == <<k * a[1], k * a[2], k * a[3]>>
DotProduct(a, b) == a[1] * b[1] + a[2] * b[2] + a[3] * b[3]
CrossProduct(a, b) ==
    <<a[2] * b[3] - a[3] * b[2], a[3] * b[1] - a[1] * b[3], a[1] * b[2] - a[2] * b[1]>>
LengthSquared(a) == DotProduct(a, a)
ZERO == <<0, 0, 0>>



-----------------------------------------------------------------------------
(* Tetrahedron, Sphere, TetrahedralMeshSurface *)

\* The "none" neighbour, cell and hint.  Only its being larger than every
\* index matters; it is kept within the 32-bit signed integers.
M_MAX_UNSIGNED == 2147483647

\* Matrix3() : inverse = rows / det.
IDENTITY == [rows |-> <<<<1, 0, 0>>, <<0, 1, 0>>, <<0, 0, 1>>>>, det |-> 1]

\* Tetrahedron{} : indices_ zeroed, neighbors_ all "none".
DefaultTetrahedron ==
    [indices |-> <<0, 0, 0, 0>>,
     neighbors |-> <<M_MAX_UNSIGNED, M_MAX_UNSIGNED, M_MAX_UNSIGNED, M_MAX_UNSIGNED>>,
     matrix |-> IDENTITY]

\* Element i (0-based) of an array.
At(array, i) == array[i + 1]

\* for (i = lo; i < hi; ++i) state = Body(state, i).  The range is halved
\* and the state after the first half is bound as a value before the second
\* half runs, which keeps the evaluation shallow.
RECURSIVE Loop(_, _, _, _)
Loop(Body(_, _), state, lo, hi) ==
    IF hi <= lo THEN state
    ELSE IF hi = lo + 1 THEN Body(state, lo)
    ELSE LET mid == (lo + hi) \div 2
         IN  CHOOSE after \in {Loop(Body, half, mid, hi) :
                                  half \in {Loop(Body, state, lo, mid)}} : TRUE

\* The first slot (0..3) of a cell's neighbors_ holding cellIndex, 4 if none
\* does (ea::find returning end).
FindNeighbor(cell, cellIndex) ==
    IF \E k \in 1..4 : cell.neighbors[k] = cellIndex
    THEN (CHOOSE k \in 1..4 : /\ cell.neighbors[k] = cellIndex
                              /\ \A l \in 1..(k - 1) : cell.neighbors[l] # cellIndex) - 1
    ELSE 4

\* ea::count(neighbors_, cellIndex) != 0
HasNeighbor(cell, cellIndex) == \E k \in 1..4 : cell.neighbors[k] = cellIndex

\* ea::replace(neighbors_, old, new)
ReplaceNeighbor(cell, old, new) ==
    LET Replaced(k) == IF cell.neighbors[k] = old THEN new ELSE cell.neighbors[k]
    IN  [cell EXCEPT !.neighbors = <<Replaced(1), Replaced(2), Replaced(3), Replaced(4)>>]

\* The circumsphere of a cell as exact data: centre = p0 + num / (2 D),
\* radius = |num| / |2 D| (+ epsilon).  D = 0 is the degenerate cell, where
\* the code's assert(Abs(den) > M_EPSILON) fails and, without asserts, the
\* division yields a centre with NaN or infinite components.
CircumsphereOf(p0, p1, p2, p3) ==
    LET u1 == VSub(p1, p0)
        u2 == VSub(p2, p0)
        u3 == VSub(p3, p0)
        d01 == LengthSquared(u1)
        d02 == LengthSquared(u2)
        d03 == LengthSquared(u3)
        num == VAdd(VAdd(VScale(d01, CrossProduct(u2, u3)),
                         VScale(d02, CrossProduct(u3, u1))),
                    VScale(d03, CrossProduct(u1, u2)))
        D == DotProduct(u1, CrossProduct(u2, u3))
    IN  [p0 |-> p0, num |-> num, D |-> D]

GetTetrahedronCircumsphere(verts, cell) ==
    CircumsphereOf(At(verts, cell.indices[1]), At(verts, cell.indices[2]),
                   At(verts, cell.indices[3]), At(verts, cell.indices[4]))

\* |point - centre|^2 - radius^2, times |D| (sign kept): the lattice has no
\* point in the shell between radius and radius + epsilon.
SpherePower(sphere, point) ==
    LET d == VSub(point, sphere.p0)
        v == LengthSquared(d) * sphere.D - DotProduct(d, sphere.num)
    IN  IF sphere.D > 0 THEN v ELSE 0 - v

\* circumsphere.IsInside(position) != OUTSIDE.  The radius carries the
\* epsilon, so a point on the sphere is inside; a NaN or infinite centre
\* compares false, so a degenerate cell's sphere holds no point.
IsInside(sphere, point) ==
    /\ sphere.D # 0
    /\ SpherePower(sphere, point) <= 0

\* Tetrahedron::GetTriangleFace: the three vertices other than faceIndex, in
\* the cell's order, tagged with the outer cell and its face.
GetTriangleFace(cell, faceIndex, tetIndex, tetFace) ==
    LET rest == SelectSeq(<<0, 1, 2, 3>>, LAMBDA k : k # faceIndex)
    IN  [indices |-> <<At(cell.indices, rest[1]), At(cell.indices, rest[2]),
                       At(cell.indices, rest[3])>>,
         tetIndex |-> tetIndex,
         tetFace |-> tetFace]

\* The edge of a surface triangle opposite its vertex k (0..2).
FaceEdge(face, k) == {At(face.indices, (k + 1) % 3), At(face.indices, (k + 2) % 3)}

\* The three edges of every face of the surface.
SurfaceEdges(faces) ==
    Loop(LAMBDA edges, i :
            Append(edges, <<FaceEdge(At(faces, i), 0), FaceEdge(At(faces, i), 1),
                            FaceEdge(At(faces, i), 2)>>),
         <<>>, 0, Len(faces))

\* The other faces of the surface that share the edge opposite vertex k of
\* face i.
EdgeSharers(edges, i, k) ==
    {j \in (0..(Len(edges) - 1)) \ {i} :
        \E l \in 1..3 : At(edges, j)[l] = At(edges, i)[k + 1]}

\* The surface's adjacency: for every face and each of its edges, the other
\* faces on that edge.
SurfaceLinks(faces) ==
    LET edges == SurfaceEdges(faces)
    IN  Loop(LAMBDA links, i :
                Append(links, <<EdgeSharers(edges, i, 0), EdgeSharers(edges, i, 1),
                                EdgeSharers(edges, i, 2)>>),
             <<>>, 0, Len(faces))

\* TetrahedralMeshSurface::IsClosedSurface: every edge is shared by exactly
\* two triangles.
IsClosedSurface(links) ==
    \A i \in 1..Len(links) : \A k \in 1..3 : Cardinality(links[i][k]) = 1

\* neighbors_[k] of face i, as AddFace leaves it on a closed surface: the
\* face across the edge opposite vertex k.
FaceNeighbor(links, i, k) == CHOOSE j \in At(links, i)[k + 1] : TRUE

-----------------------------------------------------------------------------
(* TetrahedralMesh::Define and InitializeSuperMesh *)

\* The padding CompileLightProbes builds with (Define's default argument).
DefaultPadding == 1

numVertices == 8
numTetrahedrons == 5

offsets ==
    <<<<0, 0, 0>>, <<1, 0, 0>>, <<0, 1, 0>>, <<1, 1, 0>>,
      <<0, 0, 1>>, <<1, 0, 1>>, <<0, 1, 1>>, <<1, 1, 1>>>>

indices ==
    <<<<0, 1, 2, 4>>, <<3, 1, 2, 7>>, <<5, 1, 4, 7>>, <<6, 2, 4, 7>>, <<1, 2, 4, 7>>>>

neighbors ==
    <<<<4, M_MAX_UNSIGNED, M_MAX_UNSIGNED, M_MAX_UNSIGNED>>,
      <<4, M_MAX_UNSIGNED, M_MAX_UNSIGNED, M_MAX_UNSIGNED>>,
      <<4, M_MAX_UNSIGNED, M_MAX_UNSIGNED, M_MAX_UNSIGNED>>,
      <<4, M_MAX_UNSIGNED, M_MAX_UNSIGNED, M_MAX_UNSIGNED>>,
      <<3, 2, 1, 0>>>>

MinCoord(points, axis) ==
    CHOOSE m \in {points[k][axis] : k \in 1..Len(points)} :
        \A k \in 1..Len(points) : m <= points[k][axis]

MaxCoord(points, axis) ==
    CHOOSE m \in {points[k][axis] : k \in 1..Len(points)} :
        \A k \in 1..Len(points) : m >= points[k][axis]

\* BoundingBox(positions) grown by the padding on every axis.
PaddedBoundingBox(points, pad) ==
    [min |-> [axis \in 1..3 |-> MinCoord(points, axis) - pad],
     max |-> [axis \in 1..3 |-> MaxCoord(points, axis) + pad]]

SuperVertices(boundingBox) ==
    [i \in 1..numVertices |->
        [axis \in 1..3 |->
            boundingBox.min[axis]
                + (boundingBox.max[axis] - boundingBox.min[axis]) * offsets[i][axis]]]

SuperTetrahedrons ==
    [i \in 1..numTetrahedrons |->
        [indices |-> indices[i], neighbors |-> neighbors[i], matrix |-> IDENTITY]]

-----------------------------------------------------------------------------
(* AddTetrahedralMeshVertices: one point *)

\* Fault injection for C20: the scan for the first bad cell does not look at
\* the flags.
FirstBadCell_AnyFlag(verts, tets, flags, position) ==
    LET hits == {c \in 0..(Len(tets) - 1) :
                    IsInside(GetTetrahedronCircumsphere(verts, At(tets, c)), position)}
    IN  IF hits = {} THEN M_MAX_UNSIGNED
        ELSE CHOOSE c \in hits : \A d \in hits : c <= d

\* The first cell that is not flagged bad and whose circumsphere holds the
\* position, M_MAX_UNSIGNED if there is none.
FirstBadCell(verts, tets, flags, position) ==
    LET hits == {c \in 0..(Len(tets) - 1) :
                    /\ ~At(flags, c)
                    /\ IsInside(GetTetrahedronCircumsphere(verts, At(tets, c)), position)}
    IN  IF hits = {} THEN M_MAX_UNSIGNED
        ELSE CHOOSE c \in hits : \A d \in hits : c <= d

\* Fault injection for C3: the search does not test the neighbour's
\* circumsphere, so the bad set stays the first bad cell.
VisitNeighbor_NoSpread(verts, tets, position, st, current, j) ==
    LET tetrahedron == At(tets, current)
        nextIndex == At(tetrahedron.neighbors, j)
    IN  IF nextIndex = M_MAX_UNSIGNED
        THEN [st EXCEPT !.faces = Append(@,
                GetTriangleFace(tetrahedron, j, M_MAX_UNSIGNED, M_MAX_UNSIGNED))]
        ELSE LET nextTetrahedron == At(tets, nextIndex)
                 nextFaceIndex == FindNeighbor(nextTetrahedron, current)
             IN  [st EXCEPT !.faces = Append(@,
                     GetTriangleFace(nextTetrahedron, nextFaceIndex, nextIndex,
                                     nextFaceIndex)),
                            !.lost = @ \/ nextFaceIndex = 4]

\* Fault injection for C16: the search does not skip a neighbour that is
\* already flagged, and records the face it shares with it.
VisitNeighbor_FlaggedNotSkipped(verts, tets, position, st, current, j) ==
    LET tetrahedron == At(tets, current)
        nextIndex == At(tetrahedron.neighbors, j)
    IN  IF nextIndex = M_MAX_UNSIGNED
        THEN [st EXCEPT !.faces = Append(@,
                GetTriangleFace(tetrahedron, j, M_MAX_UNSIGNED, M_MAX_UNSIGNED))]
        ELSE IF ~At(st.flags, nextIndex)
                /\ IsInside(GetTetrahedronCircumsphere(verts, At(tets, nextIndex)), position)
        THEN [st EXCEPT !.badCells = Append(@, nextIndex),
                        !.flags[nextIndex + 1] = TRUE]
        ELSE
            LET nextTetrahedron == At(tets, nextIndex)
                nextFaceIndex == FindNeighbor(nextTetrahedron, current)
            IN  [st EXCEPT !.faces = Append(@,
                    GetTriangleFace(nextTetrahedron, nextFaceIndex, nextIndex,
                                    nextFaceIndex)),
                           !.lost = @ \/ nextFaceIndex = 4]

\* The body of the loop over the four neighbours of a queued bad cell,
\* for neighbour j.  st.badCells is both badCells and searchQueue, st.flags
\* is badFlags, st.faces is holeSurface.faces_, and st.lost records an outer
\* cell that does not hold the bad cell it was reached from (ea::find
\* returning end).
VisitNeighbor(verts, tets, position, st, current, j) ==
    LET tetrahedron == At(tets, current)
        nextIndex == At(tetrahedron.neighbors, j)
    IN  IF nextIndex = M_MAX_UNSIGNED
        THEN [st EXCEPT !.faces = Append(@,
                GetTriangleFace(tetrahedron, j, M_MAX_UNSIGNED, M_MAX_UNSIGNED))]
        ELSE IF At(st.flags, nextIndex)
        THEN st
        ELSE IF IsInside(GetTetrahedronCircumsphere(verts, At(tets, nextIndex)), position)
        THEN [st EXCEPT !.badCells = Append(@, nextIndex),
                        !.flags[nextIndex + 1] = TRUE]
        ELSE
            LET nextTetrahedron == At(tets, nextIndex)
                nextFaceIndex == FindNeighbor(nextTetrahedron, current)
            IN  [st EXCEPT !.faces = Append(@,
                    GetTriangleFace(nextTetrahedron, nextFaceIndex, nextIndex,
                                    nextFaceIndex)),
                           !.lost = @ \/ nextFaceIndex = 4]

\* The loop over the four neighbours of the bad cell at queue position i.
VisitCell(verts, tets, position, st, i) ==
    Loop(LAMBDA s, j : VisitNeighbor(verts, tets, position, s, At(st.badCells, i), j),
         st, 0, 4)

\* The breadth-first search: while the queue has unprocessed cells, the
\* cells queued so far (firstCell .. lastCell - 1) are processed.
RECURSIVE CollectBadCells(_, _, _, _, _)
CollectBadCells(verts, tets, position, st, firstCell) ==
    IF firstCell >= Len(st.badCells) THEN st
    ELSE
        LET lastCell == Len(st.badCells)
        IN  CHOOSE done \in
                {CollectBadCells(verts, tets, position, round, lastCell) :
                    round \in {Loop(LAMBDA s, i : VisitCell(verts, tets, position, s, i),
                                    st, firstCell, lastCell)}} : TRUE

\* Fault injection for C17: the new vertex is stored in slot 0 and the
\* face's vertices behind it, the neighbours moved along with them.
NewCell_PointFirst(old, faces, links, badCells, i, newIndex) ==
    LET face == At(faces, i)
    IN  [old EXCEPT
            !.indices = <<newIndex, face.indices[1], face.indices[2], face.indices[3]>>,
            !.neighbors = <<face.tetIndex,
                            At(badCells, FaceNeighbor(links, i, 0)),
                            At(badCells, FaceNeighbor(links, i, 1)),
                            At(badCells, FaceNeighbor(links, i, 2))>>]

\* Fault injection for C2: the neighbours across the face's edges are stored
\* one slot late.
NewCell_Rotated(old, faces, links, badCells, i, newIndex) ==
    LET face == At(faces, i)
    IN  [old EXCEPT
            !.indices = <<face.indices[1], face.indices[2], face.indices[3], newIndex>>,
            !.neighbors = <<At(badCells, FaceNeighbor(links, i, 2)),
                            At(badCells, FaceNeighbor(links, i, 0)),
                            At(badCells, FaceNeighbor(links, i, 1)),
                            face.tetIndex>>]

\* The cell built on hole face i: the face's vertices, then the new vertex;
\* the neighbours across the face's edges, then the outer cell.
NewCell(old, faces, links, badCells, i, newIndex) ==
    LET face == At(faces, i)
    IN  [old EXCEPT
            !.indices = <<face.indices[1], face.indices[2], face.indices[3], newIndex>>,
            !.neighbors = <<At(badCells, FaceNeighbor(links, i, 0)),
                            At(badCells, FaceNeighbor(links, i, 1)),
                            At(badCells, FaceNeighbor(links, i, 2)),
                            face.tetIndex>>]

\* Fault injection for C1: the outer cell keeps pointing at the bad cell.
PatchOuterCell_Skipped(outer, tetFace, newCellIndex) == outer

\* The outer cell's slot that is pointed back at the new cell.
PatchOuterCell(outer, tetFace, newCellIndex) ==
    [outer EXCEPT !.neighbors[tetFace + 1] = newCellIndex]

\* The body of the loop that creates the new cells, for hole face i.
CreateCell(tets, faces, links, badCells, newIndex, i) ==
    LET newCellIndex == At(badCells, i)
        face == At(faces, i)
        placed == [tets EXCEPT ![newCellIndex + 1] =
                      NewCell(@, faces, links, badCells, i, newIndex)]
    IN  IF face.tetIndex # M_MAX_UNSIGNED
        THEN [placed EXCEPT ![face.tetIndex + 1] =
                 PatchOuterCell(@, face.tetFace, newCellIndex)]
        ELSE placed

\* The loop that creates the new cells, one on every hole face.
CreateCells(tets, faces, links, badCells, newIndex) ==
    Loop(LAMBDA cells, i : CreateCell(cells, faces, links, badCells, newIndex, i),
         tets, 0, Len(faces))

\* badCells grown by the slots appended when the hole has more faces than
\* bad cells.
GrownBadCells(badCells, numFaces, numCells) ==
    badCells \o [k \in 1..(IF numFaces > Len(badCells) THEN numFaces - Len(badCells) ELSE 0)
                    |-> numCells + k - 1]

\* One pass of the insertion loop: the mesh after the position is pushed and
\* (unless the pass leaves early) triangulated.
\*   outcome "ok"       the point was inserted
\*           "no cell"  no circumsphere holds it   (assert(0); return)
\*           "open"     the hole is not closed     (assert(0); return)
\*           "lost"     an outer cell did not hold the bad cell (out-of-range face)
\*   degenerate: a circumsphere computed in the pass had a zero denominator.
InsertVertex(verts, tets, flags, position) ==
    LET newIndex == Len(verts)
        verts1 == Append(verts, position)
        first == FirstBadCell(verts1, tets, flags, position)
    IN  IF first = M_MAX_UNSIGNED
        THEN [outcome |-> "no cell", vertices |-> verts1, tetrahedrons |-> tets,
              badFlags |-> flags, degenerate |-> FALSE, holeFaces |-> 0, numBad |-> 0,
              badCells |-> <<>>, faces |-> <<>>]
        ELSE
            LET st == CollectBadCells(verts1, tets, position,
                        [badCells |-> <<first>>,
                         flags |-> [flags EXCEPT ![first + 1] = TRUE],
                         faces |-> <<>>,
                         lost |-> FALSE],
                        0)
                links == SurfaceLinks(st.faces)
            IN  IF st.lost \/ ~IsClosedSurface(links)
                THEN [outcome |-> IF st.lost THEN "lost" ELSE "open",
                      vertices |-> verts1, tetrahedrons |-> tets,
                      badFlags |-> st.flags, degenerate |-> FALSE,
                      holeFaces |-> Len(st.faces), numBad |-> Len(st.badCells),
                      badCells |-> st.badCells, faces |-> st.faces]
                ELSE
                    LET numFaces == Len(st.faces)
                        extra == IF numFaces > Len(st.badCells)
                                 THEN numFaces - Len(st.badCells) ELSE 0
                        badCells == GrownBadCells(st.badCells, numFaces, Len(tets))
                        grown == tets \o [k \in 1..extra |-> DefaultTetrahedron]
                        flags1 == st.flags \o [k \in 1..extra |-> TRUE]
                        tets1 == CreateCells(grown, st.faces, links, badCells, newIndex)
                        reused == {At(badCells, i) : i \in 0..(numFaces - 1)}
                    IN  [outcome |-> "ok",
                         vertices |-> verts1,
                         tetrahedrons |-> tets1,
                         badFlags |-> [c \in 1..Len(flags1) |->
                                          IF (c - 1) \in reused THEN FALSE ELSE flags1[c]],
                         degenerate |-> \E c \in reused :
                             GetTetrahedronCircumsphere(verts1, At(tets1, c)).D = 0,
                         holeFaces |-> numFaces,
                         numBad |-> Len(st.badCells),
                         badCells |-> st.badCells,
                         faces |-> st.faces]

-----------------------------------------------------------------------------
(* AddTetrahedralMeshVertices: the cull and renumber pass *)

TouchesSuperMesh(cell) == \E j \in 1..4 : cell.indices[j] < numVertices

\* Cell i erased from the slots of its neighbour j.
EraseFromNeighbor(tets, i, j) ==
    LET neighborIndex == At(At(tets, i).neighbors, j)
    IN  IF neighborIndex # M_MAX_UNSIGNED
        THEN [tets EXCEPT ![neighborIndex + 1] = ReplaceNeighbor(@, i, M_MAX_UNSIGNED)]
        ELSE tets

\* The body of the culling loop, for cell i: a cell that touches the
\* super-mesh is flagged, and a flagged cell is erased from the slots of the
\* cells it names as neighbours.
CullCell(st, i) ==
    LET tets == st.tetrahedrons
        flags1 == IF TouchesSuperMesh(At(tets, i))
                  THEN [st.badFlags EXCEPT ![i + 1] = TRUE] ELSE st.badFlags
    IN  [tetrahedrons |->
            IF At(flags1, i)
            THEN EraseFromNeighbor(
                    EraseFromNeighbor(
                        EraseFromNeighbor(
                            EraseFromNeighbor(tets, i, 0), i, 1), i, 2), i, 3)
            ELSE tets,
         badFlags |-> flags1]

\* The culling loop over all cells.
CullCells(tets, flags) ==
    Loop(CullCell, [tetrahedrons |-> tets, badFlags |-> flags], 0, Len(tets))

\* newIndices: the number of unflagged cells before cell i, or "none".
NewIndex(flags, i) ==
    IF At(flags, i) THEN M_MAX_UNSIGNED
    ELSE Cardinality({c \in 0..(i - 1) : ~At(flags, c)})

\* The surviving cells in order, neighbours renumbered.
RenumberCells(tets, flags) ==
    LET kept == SelectSeq([c \in 1..Len(tets) |-> c - 1], LAMBDA c : ~At(flags, c))
    IN  [k \in 1..Len(kept) |->
            [At(tets, kept[k]) EXCEPT
                !.neighbors = [j \in 1..4 |->
                    IF @[j] = M_MAX_UNSIGNED THEN M_MAX_UNSIGNED
                    ELSE NewIndex(flags, @[j])]]]

\* assert(newIndex != M_MAX_UNSIGNED) in the renumber loop fails.
RenumberAssertFails(tets, flags) ==
    \E c \in 0..(Len(tets) - 1) :
        /\ ~At(flags, c)
        /\ \E j \in 1..4 :
            /\ At(tets, c).neighbors[j] # M_MAX_UNSIGNED
            /\ At(flags, At(tets, c).neighbors[j])

\* Matrix3(u1 | u2 | u3).Inverse(): rows (u2 x u3, u3 x u1, u1 x u2) / det.
InverseBasis(p0, p1, p2, p3) ==
    LET u1 == VSub(p1, p0)
        u2 == VSub(p2, p0)
        u3 == VSub(p3, p0)
    IN  [rows |-> <<CrossProduct(u2, u3), CrossProduct(u3, u1), CrossProduct(u1, u2)>>,
         det |-> DotProduct(u1, CrossProduct(u2, u3))]

\* Fault injection for C12: the cells keep the vertex indices they had
\* before the 8 super-mesh vertices were erased.
ShiftAndCache_NoShift(verts, cell) ==
    LET shifted == [j \in 1..4 |-> cell.indices[j] - numVertices]
    IN  [cell EXCEPT
            !.matrix = InverseBasis(At(verts, shifted[1]), At(verts, shifted[2]),
                                    At(verts, shifted[3]), At(verts, shifted[4]))]

\* Vertex indices shifted past the 8 erased slots, the basis matrix cached.
ShiftAndCache(verts, cell) ==
    LET shifted == [j \in 1..4 |-> cell.indices[j] - numVertices]
    IN  [cell EXCEPT
            !.indices = shifted,
            !.matrix = InverseBasis(At(verts, shifted[1]), At(verts, shifted[2]),
                                    At(verts, shifted[3]), At(verts, shifted[4]))]

\* IsTetrahedralMeshAdjacencyValid
IsTetrahedralMeshAdjacencyValid(tets) ==
    \A cellIndex \in 0..(Len(tets) - 1) : \A i \in 1..4 :
        LET neighborIndex == At(tets, cellIndex).neighbors[i]
        IN  neighborIndex # M_MAX_UNSIGNED
                => HasNeighbor(At(tets, neighborIndex), cellIndex)

\* Fault injection for C9: the pass without the erase of the 8 super-mesh
\* vertices.
FinishMesh_KeepsSuperVertices(verts, tets, flags) ==
    LET culled == CullCells(tets, flags)
        cells == RenumberCells(culled.tetrahedrons, culled.badFlags)
        tets1 == [k \in 1..Len(cells) |-> ShiftAndCache(verts, cells[k])]
    IN  [vertices |-> verts,
         tetrahedrons |-> tets1,
         badFlags |-> culled.badFlags,
         assertFails |->
            \/ RenumberAssertFails(culled.tetrahedrons, culled.badFlags)
            \/ \E k \in 1..Len(tets1) : tets1[k].matrix.det = 0
            \/ ~IsTetrahedralMeshAdjacencyValid(tets1)]

\* Lines 285-360: the mesh Define returns, and whether one of the pass's
\* assertions fails on the way.
FinishMesh(verts, tets, flags) ==
    LET culled == CullCells(tets, flags)
        cells == RenumberCells(culled.tetrahedrons, culled.badFlags)
        verts1 == SubSeq(verts, numVertices + 1, Len(verts))
        tets1 == [k \in 1..Len(cells) |-> ShiftAndCache(verts1, cells[k])]
    IN  [vertices |-> verts1,
         tetrahedrons |-> tets1,
         badFlags |-> culled.badFlags,
         assertFails |->
            \/ RenumberAssertFails(culled.tetrahedrons, culled.badFlags)
            \/ \E k \in 1..Len(tets1) : tets1[k].matrix.det = 0
            \/ ~IsTetrahedralMeshAdjacencyValid(tets1)]

-----------------------------------------------------------------------------
(* GenerateHullNormals *)

\* The outward normal of the face of a cell opposite its vertex i (0..3).
FaceNormal(verts, cell, i) ==
    LET triangle == GetTriangleFace(cell, i, M_MAX_UNSIGNED, M_MAX_UNSIGNED).indices
        p0 == At(verts, At(cell.indices, i))
        p1 == At(verts, triangle[1])
        p2 == At(verts, triangle[2])
        p3 == At(verts, triangle[3])
        orientation == VSub(p1, p0)
        cross == CrossProduct(VSub(p2, p1), VSub(p3, p1))
    IN  IF DotProduct(cross, orientation) >= 0 THEN cross ELSE VScale(-1, cross)

\* The body of the loops over the cells and their faces, for face i of cell
\* c: the normal of a hull face is added to each of the face's vertices.
AddHullNormal(normals, verts, tets, c, i) ==
    LET cell == At(tets, c)
    IN  IF At(cell.neighbors, i) # M_MAX_UNSIGNED THEN normals
        ELSE LET normal == FaceNormal(verts, cell, i)
                 triangle == GetTriangleFace(cell, i, M_MAX_UNSIGNED, M_MAX_UNSIGNED).indices
             IN  [normals EXCEPT ![triangle[1] + 1] = VAdd(@, normal),
                                 ![triangle[2] + 1] = VAdd(@, normal),
                                 ![triangle[3] + 1] = VAdd(@, normal)]

\* hullNormals_, each left as the accumulated sum (its direction; the final
\* Normalize() only rescales a non-zero sum).
GenerateHullNormals(verts, tets) ==
    Loop(LAMBDA normals, k : AddHullNormal(normals, verts, tets, k \div 4, k % 4),
         [v \in 1..Len(verts) |-> ZERO], 0, 4 * Len(tets))

-----------------------------------------------------------------------------
(* GetInnerBarycentricCoords, SampleLightProbeMesh, SampleAmbientSH *)

\* A query position is q / QScale for an integer point q: positions are
\* kept in quarters, which holds the centroid of every cell.
QScale == 4

\* Vector4(): the weights SampleLightProbeMesh returns when its loop does
\* not run.
ZeroWeights == [num |-> <<0, 0, 0, 0>>, den |-> 1]

\* (w0, w1, w2, w3) = num / den with den > 0; den = 0 stands for the NaN
\* weights of a singular basis, which compare false with everything.
\* w123 = matrix * (position - vertex0), w0 = 1 - w1 - w2 - w3.
GetInnerBarycentricCoords(verts, cell, q) ==
    LET d == VSub(q, VScale(QScale, At(verts, cell.indices[1])))
        n1 == DotProduct(cell.matrix.rows[1], d)
        n2 == DotProduct(cell.matrix.rows[2], d)
        n3 == DotProduct(cell.matrix.rows[3], d)
        den == cell.matrix.det * QScale
        n0 == den - n1 - n2 - n3
    IN  IF den > 0 THEN [num |-> <<n0, n1, n2, n3>>, den |-> den]
        ELSE IF den < 0 THEN [num |-> <<0 - n0, 0 - n1, 0 - n2, 0 - n3>>, den |-> 0 - den]
        ELSE [num |-> <<0, 0, 0, 0>>, den |-> 0]

\* weights.x_ >= 0 && weights.y_ >= 0 && weights.z_ >= 0 && weights.w_ >= 0
AllNonNegative(w) == w.den # 0 /\ \A k \in 1..4 : w.num[k] >= 0

\* a < b on two components of one weight vector
Less(w, a, b) == w.den # 0 /\ w.num[a] < w.num[b]

\* Fault injection for C18: the second test of the chain compares weight 1
\* with weight 2 only.
WalkSlot_ShortSecondTest(w) ==
    IF Less(w, 1, 2) /\ Less(w, 1, 3) /\ Less(w, 1, 4) THEN 0
    ELSE IF Less(w, 2, 3) THEN 1
    ELSE IF Less(w, 3, 4) THEN 2
    ELSE 3

\* Fault injection for C6: the chain with non-strict comparisons, which
\* steps through the first of the smallest weights.
WalkSlot_FirstSmallest(w) ==
    IF ~Less(w, 2, 1) /\ ~Less(w, 3, 1) /\ ~Less(w, 4, 1) THEN 0
    ELSE IF ~Less(w, 3, 2) /\ ~Less(w, 4, 2) THEN 1
    ELSE IF ~Less(w, 4, 3) THEN 2
    ELSE 3

\* The neighbour slot (0..3) the walk steps through: the if / else-if chain
\* of strict comparisons.
WalkSlot(w) ==
    IF Less(w, 1, 2) /\ Less(w, 1, 3) /\ Less(w, 1, 4) THEN 0
    ELSE IF Less(w, 2, 3) /\ Less(w, 2, 4) THEN 1
    ELSE IF Less(w, 3, 4) THEN 2
    ELSE 3

\* Fault injection for C13: the loop tests i <= maxIters and runs once more.
RECURSIVE Walk_OneMore(_, _, _, _, _, _, _, _)
Walk_OneMore(verts, tets, q, maxIters, h, i, weights, steps) ==
    IF i > maxIters
    THEN [outcome |-> "cap", hint |-> h, weights |-> weights, iterations |-> i,
          steps |-> steps]
    ELSE IF h >= Len(tets)
    THEN [outcome |-> "range", hint |-> h, weights |-> weights, iterations |-> i,
          steps |-> steps]
    ELSE
        LET w == GetInnerBarycentricCoords(verts, At(tets, h), q)
            slot == WalkSlot(w)
            next == At(At(tets, h).neighbors, slot)
            steps1 == Append(steps, [cell |-> h, weights |-> w, slot |-> slot])
        IN  IF AllNonNegative(w)
            THEN [outcome |-> "success", hint |-> h, weights |-> w,
                  iterations |-> i + 1, steps |-> steps]
            ELSE IF next = M_MAX_UNSIGNED
            THEN [outcome |-> "none", hint |-> next, weights |-> w,
                  iterations |-> i + 1, steps |-> steps1]
            ELSE Walk_OneMore(verts, tets, q, maxIters, next, i + 1, w, steps1)

\* Fault injection for C7: the walk that, stepping onto M_MAX_UNSIGNED,
\* leaves the hint at the cell it stepped from.
RECURSIVE Walk_StaysOnCell(_, _, _, _, _, _, _, _)
Walk_StaysOnCell(verts, tets, q, maxIters, h, i, weights, steps) ==
    IF i >= maxIters
    THEN [outcome |-> "cap", hint |-> h, weights |-> weights, iterations |-> i,
          steps |-> steps]
    ELSE IF h >= Len(tets)
    THEN [outcome |-> "range", hint |-> h, weights |-> weights, iterations |-> i,
          steps |-> steps]
    ELSE
        LET w == GetInnerBarycentricCoords(verts, At(tets, h), q)
            slot == WalkSlot(w)
            next == At(At(tets, h).neighbors, slot)
            steps1 == Append(steps, [cell |-> h, weights |-> w, slot |-> slot])
        IN  IF AllNonNegative(w)
            THEN [outcome |-> "success", hint |-> h, weights |-> w,
                  iterations |-> i + 1, steps |-> steps]
            ELSE IF next = M_MAX_UNSIGNED
            THEN [outcome |-> "none", hint |-> h, weights |-> w,
                  iterations |-> i + 1, steps |-> steps1]
            ELSE Walk_StaysOnCell(verts, tets, q, maxIters, next, i + 1, w, steps1)

\* The loop of SampleLightProbeMesh from iteration i on, at cell h.
\*   outcome "success"  all four weights are non-negative (return in the loop)
\*           "none"     the walk stepped onto M_MAX_UNSIGNED (break)
\*           "cap"      the loop ran maxIters times
\*           "range"    tetrahedrons_[h] is read with h >= size: undefined
\* steps: the cells left, each with its weights and the slot stepped through.
RECURSIVE Walk(_, _, _, _, _, _, _, _)
Walk(verts, tets, q, maxIters, h, i, weights, steps) ==
    IF i >= maxIters
    THEN [outcome |-> "cap", hint |-> h, weights |-> weights, iterations |-> i,
          steps |-> steps]
    ELSE IF h >= Len(tets)
    THEN [outcome |-> "range", hint |-> h, weights |-> weights, iterations |-> i,
          steps |-> steps]
    ELSE
        LET w == GetInnerBarycentricCoords(verts, At(tets, h), q)
            slot == WalkSlot(w)
            next == At(At(tets, h).neighbors, slot)
            steps1 == Append(steps, [cell |-> h, weights |-> w, slot |-> slot])
        IN  IF AllNonNegative(w)
            THEN [outcome |-> "success", hint |-> h, weights |-> w,
                  iterations |-> i + 1, steps |-> steps]
            ELSE IF next = M_MAX_UNSIGNED
            THEN [outcome |-> "none", hint |-> next, weights |-> w,
                  iterations |-> i + 1, steps |-> steps1]
            ELSE Walk(verts, tets, q, maxIters, next, i + 1, w, steps1)

\* SampleLightProbeMesh(position, hint): maxIters is the size of the probe
\* collection, and a hint not below it restarts at cell 0.
SampleLightProbeMesh(probes, verts, tets, q, hintIn) ==
    LET maxIters == Len(probes)
        start == IF hintIn >= maxIters THEN 0 ELSE hintIn
    IN  Walk(verts, tets, q, maxIters, start, 0, ZeroWeights, <<>>)

\* SphericalHarmonicsDot9{} : the zero of the payload, as the coefficient of
\* every probe's payload in the returned value.
ZeroValue(probes) == [coeff |-> [k \in 1..Len(probes) |-> 0], den |-> 1]

\* Fault injection for C8: weight i is paired with the cell's vertex i + 1.
Blend_Shifted(probes, cell, w) ==
    [coeff |-> [k \in 1..Len(probes) |->
                    (IF cell.indices[2] = k - 1 THEN w.num[1] ELSE 0)
                  + (IF cell.indices[3] = k - 1 THEN w.num[2] ELSE 0)
                  + (IF cell.indices[4] = k - 1 THEN w.num[3] ELSE 0)
                  + (IF cell.indices[1] = k - 1 THEN w.num[4] ELSE 0)],
     den |-> w.den]

\* sum of lightProbes_[indices_[i]].bakedLight_ * weights[i]
Blend(probes, cell, w) ==
    [coeff |-> [k \in 1..Len(probes) |->
                    (IF cell.indices[1] = k - 1 THEN w.num[1] ELSE 0)
                  + (IF cell.indices[2] = k - 1 THEN w.num[2] ELSE 0)
                  + (IF cell.indices[3] = k - 1 THEN w.num[3] ELSE 0)
                  + (IF cell.indices[4] = k - 1 THEN w.num[4] ELSE 0)],
     den |-> w.den]

\* SampleAmbientSH(position, hint): the located weights blended over the
\* cell the hint names, or the zero value when the hint names no cell.
\* blendCell is the cell whose indices_ the blend read ("none": no cell read).
SampleAmbientSHResult(probes, verts, tets, q, hintIn) ==
    LET located == SampleLightProbeMesh(probes, verts, tets, q, hintIn)
        fallback == located.hint >= Len(tets)
    IN  [position |-> q,
         hintIn |-> hintIn,
         outcome |-> located.outcome,
         hint |-> located.hint,
         weights |-> located.weights,
         iterations |-> located.iterations,
         steps |-> located.steps,
         blendCell |-> IF fallback THEN M_MAX_UNSIGNED ELSE located.hint,
         value |-> IF fallback THEN ZeroValue(probes)
                   ELSE Blend(probes, At(tets, located.hint), located.weights)]

\* No SampleAmbientSH call has been made since the mesh last changed.
NoSample ==
    [position |-> ZERO, hintIn |-> 0, outcome |-> "idle", hint |-> 0,
     weights |-> ZeroWeights, iterations |-> 0, steps |-> <<>>,
     blendCell |-> M_MAX_UNSIGNED, value |-> [coeff |-> <<>>, den |-> 1]]

\* No pass of the insertion loop has run in the build under way, or the
\* build is over.
NoInsertion ==
    [outcome |-> "idle", position |-> ZERO, vertices |-> <<>>, tetrahedrons |-> <<>>,
     badFlags |-> <<>>, badCells |-> <<>>, faces |-> <<>>]

-----------------------------------------------------------------------------
(* Inputs *)

Lattice == {<<x, y, z>> : x \in 0..LatticeMax, y \in 0..LatticeMax, z \in 0..LatticeMax}

\* Every sequence of at most n lattice points (the exhaustive family).
SeqsUpTo(n) == UNION {[1..k -> Lattice] : k \in 0..n}

\* Eight probes on the 3 x 3 x 3 lattice whose mesh has more cells than
\* vertices (11 cells).
SceneWalk ==
    <<<<0, 2, 0>>, <<1, 0, 0>>, <<1, 2, 1>>, <<2, 0, 2>>,
      <<2, 2, 1>>, <<0, 1, 1>>, <<0, 0, 1>>, <<2, 1, 1>>>>

\* Six probes of which two share a position.
SceneTwins ==
    <<<<2, 2, 1>>, <<1, 1, 1>>, <<1, 2, 2>>, <<0, 2, 2>>, <<1, 2, 2>>, <<1, 1, 2>>>>

\* Five probes whose mesh, two cells on a common face, is not convex.
SceneHollow ==
    <<<<0, 0, 1>>, <<2, 1, 2>>, <<0, 2, 0>>, <<2, 0, 2>>, <<1, 0, 2>>>>

\* Six probes whose mesh is two cells that meet along one edge only.
SceneHinge ==
    <<<<1, 2, 1>>, <<2, 1, 0>>, <<0, 1, 2>>, <<1, 0, 2>>, <<1, 1, 1>>, <<2, 0, 1>>>>

\* Six probes of which two share a position, the last lying in the
\* circumsphere of a cell that the repeated probe's insertion left flagged.
SceneRevisit ==
    <<<<2, 2, 0>>, <<2, 0, 2>>, <<1, 2, 2>>, <<2, 2, 1>>, <<1, 2, 2>>, <<1, 0, 0>>>>

Prefixes(scene) == {SubSeq(scene, 1, k) : k \in 0..Len(scene)}

\* The scenes that are sampled: every prefix of the four scenes.
Scenes ==
    Prefixes(SceneWalk) \cup Prefixes(SceneTwins) \cup Prefixes(SceneHollow)
        \cup Prefixes(SceneHinge)

\* The inputs that are built: the scenes and the exhaustive family.
BuildInputs == Scenes \cup Prefixes(SceneRevisit) \cup SeqsUpTo(MaxPoints)

\* Query positions (times QScale): the points with coordinates in halves up
\* to QueryMax / 2, and the centroids of the cells of the mesh.
QueryPositions ==
    {VScale(QScale \div 2, <<x, y, z>>) :
        x \in 0..QueryMax, y \in 0..QueryMax, z \in 0..QueryMax}

Centroid(verts, cell) ==
    VScale(QScale \div 4,
           VAdd(VAdd(At(verts, cell.indices[1]), At(verts, cell.indices[2])),
                VAdd(At(verts, cell.indices[3]), At(verts, cell.indices[4]))))

Centroids(verts, tets) == {Centroid(verts, tets[c]) : c \in 1..Len(tets)}

\* The hints a caller seeds.
SeedHints == (0..MaxSeed) \cup {M_MAX_UNSIGNED}

-----------------------------------------------------------------------------
(* Actions *)

Init ==
    /\ pc = "idle"
    /\ lightProbes = <<>>
    /\ vertices = <<>>
    /\ tetrahedrons = <<>>
    /\ hullNormals = <<>>
    /\ badFlags = <<>>
    /\ positions = <<>>
    /\ padding = DefaultPadding
    /\ cursor = 0
    /\ aborted = FALSE
    /\ hint = 0
    /\ sample = NoSample
    /\ otherHint = 0
    /\ otherSample = NoSample
    /\ insertion = NoInsertion

\* The outcomes of a failed assert: the build with asserts aborts the
\* process, the build without them carries on.
AssertOutcomes == {"crashed", "continue"}

\* The state ResetLightProbes leaves.
IsReset ==
    /\ lightProbes = <<>>
    /\ vertices = <<>>
    /\ tetrahedrons = <<>>
    /\ hullNormals = <<>>

\* Fault injection for C15: the reset that clears the payload collection and
\* leaves the mesh.
ResetLightProbes_KeepsMesh ==
    /\ pc = "idle"
    /\ ~IsReset
    /\ lightProbes' = <<>>
    /\ badFlags' = <<>>
    /\ positions' = <<>>
    /\ padding' = DefaultPadding
    /\ cursor' = 0
    /\ aborted' = FALSE
    /\ sample' = NoSample
    /\ otherSample' = NoSample
    /\ insertion' = NoInsertion
    /\ UNCHANGED <<vertices, tetrahedrons, hullNormals>>
    /\ UNCHANGED <<pc, hint, otherHint>>

\* GlobalIllumination::ResetLightProbes
ResetLightProbes ==
    /\ pc = "idle"
    /\ ~IsReset
    /\ lightProbes' = <<>>
    /\ vertices' = <<>>
    /\ tetrahedrons' = <<>>
    /\ hullNormals' = <<>>
    /\ badFlags' = <<>>
    /\ positions' = <<>>
    /\ padding' = DefaultPadding
    /\ cursor' = 0
    /\ aborted' = FALSE
    /\ sample' = NoSample
    /\ otherSample' = NoSample
    /\ insertion' = NoInsertion
    /\ UNCHANGED <<pc, hint, otherHint>>

\* TetrahedralMesh::Define up to the first insertion: the padded box, the
\* super-mesh, and the circumspheres and flags of its five cells.
Define(points, pad) ==
    LET super == SuperVertices(PaddedBoundingBox(points, pad))
        degenerate == \E c \in 1..numTetrahedrons :
            GetTetrahedronCircumsphere(super, SuperTetrahedrons[c]).D = 0
    IN  /\ vertices' = super
        /\ tetrahedrons' = SuperTetrahedrons
        /\ badFlags' = [c \in 1..numTetrahedrons |-> FALSE]
        /\ hullNormals' = <<>>
        /\ positions' = points
        /\ padding' = pad
        /\ cursor' = 0
        /\ aborted' = FALSE
        /\ sample' = NoSample
        /\ otherSample' = NoSample
        /\ insertion' = NoInsertion
        /\ \E o \in AssertOutcomes :
            pc' = IF degenerate /\ o = "crashed" THEN "crashed" ELSE "adding"

\* GlobalIllumination::CompileLightProbes, from the state its opening
\* ResetLightProbes() leaves, up to the first insertion; with no probe
\* collected it returns at once.
Compile(inputs) ==
    /\ pc = "idle"
    /\ IsReset
    /\ sample = NoSample
    /\ otherSample = NoSample
    /\ \E points \in inputs \ {<<>>} :
        /\ lightProbes' = points
        /\ Define(points, DefaultPadding)
    /\ UNCHANGED <<hint, otherHint>>

CompileLightProbes == Compile(Scenes)

CompileAny == Compile(BuildInputs)

\* Define called on a mesh of its own, with any padding.
DefineMesh ==
    /\ pc = "idle"
    /\ IsReset
    /\ \E points \in BuildInputs \ {<<>>}, pad \in 0..MaxPadding : Define(points, pad)
    /\ lightProbes' = <<>>
    /\ UNCHANGED <<hint, otherHint>>

\* What follows Define in its caller: CompileLightProbes generates the hull
\* normals.
AfterDefine(verts, tets) ==
    hullNormals' = IF lightProbes # <<>> THEN GenerateHullNormals(verts, tets) ELSE <<>>

\* One pass of the insertion loop of AddTetrahedralMeshVertices.
AddVertex ==
    /\ pc = "adding"
    /\ cursor < Len(positions)
    /\ \E r \in {InsertVertex(vertices, tetrahedrons, badFlags, At(positions, cursor))} :
           /\ vertices' = r.vertices
           /\ tetrahedrons' = r.tetrahedrons
           /\ insertion' = [outcome |-> r.outcome,
                            position |-> At(positions, cursor),
                            vertices |-> r.vertices,
                            tetrahedrons |-> tetrahedrons,
                            badFlags |-> badFlags,
                            badCells |-> r.badCells,
                            faces |-> r.faces]
           /\ \E o \in AssertOutcomes :
                IF r.outcome = "ok"
                THEN /\ pc' = IF r.degenerate /\ o = "crashed" THEN "crashed" ELSE "adding"
                     /\ cursor' = cursor + 1
                     /\ badFlags' = r.badFlags
                     /\ UNCHANGED <<aborted, hullNormals>>
                ELSE IF r.outcome = "lost" \/ o = "crashed"
                THEN /\ pc' = "crashed"
                     /\ badFlags' = r.badFlags
                     /\ UNCHANGED <<cursor, aborted, hullNormals>>
                ELSE /\ pc' = "idle"
                     /\ aborted' = TRUE
                     /\ badFlags' = <<>>
                     /\ AfterDefine(r.vertices, r.tetrahedrons)
                     /\ UNCHANGED cursor
    /\ UNCHANGED <<lightProbes, positions, padding, hint, sample, otherHint, otherSample>>

\* The cull and renumber pass that ends AddTetrahedralMeshVertices, and the
\* return of Define.
Finish ==
    /\ pc = "adding"
    /\ cursor = Len(positions)
    /\ \E r \in {FinishMesh(vertices, tetrahedrons, badFlags)} :
           /\ vertices' = r.vertices
           /\ tetrahedrons' = r.tetrahedrons
           /\ insertion' = NoInsertion
           /\ \E o \in AssertOutcomes :
                IF r.assertFails /\ o = "crashed"
                THEN /\ pc' = "crashed"
                     /\ badFlags' = r.badFlags
                     /\ UNCHANGED hullNormals
                ELSE /\ pc' = "idle"
                     /\ badFlags' = <<>>
                     /\ AfterDefine(r.vertices, r.tetrahedrons)
    /\ UNCHANGED <<lightProbes, positions, padding, cursor, aborted, hint, sample,
                   otherHint, otherSample>>

\* GlobalIllumination::SampleAmbientSH(position, hint), the caller passing
\* the hint it holds or one it seeds.  An out-of-range cell read is
\* undefined: the call may crash, or go on to any hint.
SampleAmbientSH ==
    /\ pc = "idle"
    /\ sample = NoSample
    /\ \E q \in QueryPositions \cup Centroids(vertices, tetrahedrons),
          hintIn \in {hint} \cup SeedHints :
        \E r \in {SampleAmbientSHResult(lightProbes, vertices, tetrahedrons, q, hintIn)} :
            /\ sample' = r
            /\ IF r.outcome = "range"
               THEN \E h \in SeedHints, o \in AssertOutcomes :
                        /\ hint' = h
                        /\ pc' = IF o = "crashed" THEN "crashed" ELSE "idle"
               ELSE /\ hint' = r.hint
                    /\ pc' = pc
    /\ UNCHANGED meshVars
    /\ UNCHANGED <<otherHint, otherSample>>

\* The caller takes the returned value and keeps its hint.
Return ==
    /\ pc = "idle"
    /\ sample # NoSample
    /\ sample' = NoSample
    /\ UNCHANGED <<pc, hint>>
    /\ UNCHANGED meshVars
    /\ UNCHANGED <<otherHint, otherSample>>

\* The GlobalIllumination component: compiling the scenes and sampling.
Next ==
    \/ CompileLightProbes
    \/ ResetLightProbes
    \/ AddVertex
    \/ Finish
    \/ SampleAmbientSH
    \/ Return

Spec == Init /\ [][Next]_vars

\* Building alone, over the scenes and the exhaustive family.
NextBuild ==
    \/ CompileAny
    \/ ResetLightProbes
    \/ AddVertex
    \/ Finish

SpecBuild == Init /\ [][NextBuild]_vars

\* TetrahedralMesh::Define alone, with every padding.
NextDefine ==
    \/ DefineMesh
    \/ ResetLightProbes
    \/ AddVertex
    \/ Finish

SpecDefine == Init /\ [][NextDefine]_vars

\* SampleAmbientSH(position, hint) called by a second caller with a hint of
\* its own, between calls of the first.
OtherSampleAmbientSH ==
    /\ pc = "idle"
    /\ sample = NoSample
    /\ otherSample = NoSample
    /\ \E q \in QueryPositions \cup Centroids(vertices, tetrahedrons),
          hintIn \in {otherHint} \cup SeedHints :
        \E r \in {SampleAmbientSHResult(lightProbes, vertices, tetrahedrons, q, hintIn)} :
            /\ otherSample' = r
            /\ IF r.outcome = "range"
               THEN \E h \in SeedHints, o \in AssertOutcomes :
                        /\ otherHint' = h
                        /\ pc' = IF o = "crashed" THEN "crashed" ELSE "idle"
               ELSE /\ otherHint' = r.hint
                    /\ pc' = pc
    /\ UNCHANGED meshVars
    /\ UNCHANGED <<hint, sample>>

\* The second caller takes the returned value and keeps its hint.
OtherReturn ==
    /\ pc = "idle"
    /\ otherSample # NoSample
    /\ otherSample' = NoSample
    /\ UNCHANGED <<pc, hint, sample, otherHint>>
    /\ UNCHANGED meshVars

\* The first caller's call, made while no call of the second is open.
FirstSampleAmbientSH == otherSample = NoSample /\ SampleAmbientSH

\* The scenes the two callers sample.
CompileShared == Compile(Prefixes(SceneHollow) \cup Prefixes(SceneHinge))

\* Two callers, each with its own hint, sampling one mesh in any order.
NextReaders ==
    \/ CompileShared
    \/ ResetLightProbes
    \/ AddVertex
    \/ Finish
    \/ FirstSampleAmbientSH
    \/ Return
    \/ OtherSampleAmbientSH
    \/ OtherReturn

SpecReaders == Init /\ [][NextReaders]_vars
-----------------------------------------------------------------------------
(* Where the build stands *)

\* Define is between two insertions: the super-mesh is initialised and
\* cursor points are inserted.
Building == pc = "adding"

\* Define ran to its end: every point is inserted and the cull and renumber
\* pass is done.
Built == pc = "idle" /\ ~aborted /\ positions # <<>>

\* Define returned, at its end or through an early return of the build.
Returned == pc = "idle" /\ positions # <<>>

\* The indices of the stored cells.
Cells == 0..(Len(tetrahedrons) - 1)

\* A stored cell that is part of the triangulation: during the build a cell
\* is live unless it is flagged bad; the final pass keeps only live cells.
IsLive(c) == Building => ~At(badFlags, c)

\* During the build, a flagged cell whose slot no insertion has reused.
IsStale(c) == Building /\ At(badFlags, c)

-----------------------------------------------------------------------------
(* C1 *)

\* C1 as stated: after InitializeSuperMesh, after every insertion and after
\* the final pass, every stored cell C and every slot of C that holds a cell
\* N has N holding C in one of its slots.  An insertion that collects more
\* bad cells than the hole has faces leaves the surplus cells stored and
\* flagged, with the slots they had; their former neighbours have moved on.
C1_EveryStoredCell ==
    (Building \/ Built) => IsTetrahedralMeshAdjacencyValid(tetrahedrons)

\* C1, amended: the same holds of every live cell C (every cell not flagged
\* bad during the build, every cell after the final pass), and the cell N
\* its slot holds is itself a stored live cell.
C1_LiveCellsReciprocal ==
    (Building \/ Built) =>
        \A c \in Cells : IsLive(c) =>
            \A f \in 1..4 :
                LET n == At(tetrahedrons, c).neighbors[f]
                IN  n # M_MAX_UNSIGNED =>
                        /\ n \in Cells
                        /\ IsLive(n)
                        /\ HasNeighbor(At(tetrahedrons, n), c)

\* C1 witness: points are inserted, a stale cell is stored beside the live
\* ones, and a live cell holds a neighbour.
C1_Witness ==
    /\ Building
    /\ cursor > 0
    /\ \E c \in Cells : IsStale(c)
    /\ \E c \in Cells : IsLive(c) /\ \E f \in 1..4 :
            At(tetrahedrons, c).neighbors[f] # M_MAX_UNSIGNED

-----------------------------------------------------------------------------
(* C2 *)

\* The vertices of cell A other than the one in slot i: the face opposite
\* slot i.
OppositeFace(A, i) == {A.indices[k] : k \in (1..4) \ {i}}

\* The vertices of a cell.
Corners(A) == {A.indices[k] : k \in 1..4}

\* Cell a holds cell b in slot i, and the two agree on the face: they share
\* exactly the three vertices of a's face opposite slot i, and b holds a in
\* the slot of its one vertex that is not shared.
IsFaceConsistent(a, i, b) ==
    LET A == At(tetrahedrons, a)
        B == At(tetrahedrons, b)
        shared == OppositeFace(A, i)
    IN  /\ Cardinality(shared) = 3
        /\ Corners(A) \cap Corners(B) = shared
        /\ \E k \in 1..4 :
              /\ B.indices[k] \notin shared
              /\ B.neighbors[k] = a

\* C2 as stated: in the super-mesh, after every insertion and in the final
\* mesh, whenever a stored cell A holds cell B in slot i, the two are
\* face-consistent.  The flagged cells an insertion leaves behind break it:
\* they still hold the neighbours they had, which have been rebuilt.
C2_EveryStoredCell ==
    (Building \/ Built) =>
        \A a \in Cells : \A i \in 1..4 :
            LET b == At(tetrahedrons, a).neighbors[i]
            IN  b # M_MAX_UNSIGNED => b \in Cells /\ IsFaceConsistent(a, i, b)

\* C2, amended: in the super-mesh, after every insertion and in the final
\* mesh, whenever a live cell A holds cell B in slot i, B is live, A and B
\* share exactly the three vertices of A other than the one in slot i, and B
\* holds A in the slot of its one vertex that A does not have.
C2_LiveCellsFaceConsistent ==
    (Building \/ Built) =>
        \A a \in Cells : IsLive(a) =>
            \A i \in 1..4 :
                LET b == At(tetrahedrons, a).neighbors[i]
                IN  b # M_MAX_UNSIGNED =>
                        b \in Cells /\ IsLive(b) /\ IsFaceConsistent(a, i, b)

\* C2 witness: after an insertion, a cell built on the new vertex holds
\* another cell built on it, beside a stale cell.
C2_Witness ==
    /\ Building
    /\ cursor > 1
    /\ \E c \in Cells : IsStale(c)
    /\ \E a \in Cells : \E i \in 1..3 :
          LET b == At(tetrahedrons, a).neighbors[i]
          IN  /\ IsLive(a)
              /\ At(tetrahedrons, a).indices[4] = Len(vertices) - 1
              /\ b # M_MAX_UNSIGNED
              /\ At(tetrahedrons, b).indices[4] = Len(vertices) - 1

-----------------------------------------------------------------------------
(* C3 *)

\* Vertex v lies strictly inside the circumsphere of cell c: the squared
\* distance to the centre is below the squared radius.  A flat cell (D = 0)
\* has no circumsphere.
IsStrictlyInside(c, v) ==
    LET sphere == GetTetrahedronCircumsphere(vertices, At(tetrahedrons, c))
    IN  sphere.D # 0 /\ SpherePower(sphere, At(vertices, v)) < 0

\* C3: after Define returns, no vertex of the mesh it leaves lies strictly
\* inside the circumsphere of a cell of which it is not a corner.
C3_Delaunay ==
    Returned =>
        \A c \in Cells : \A v \in 0..(Len(vertices) - 1) :
            v \notin Corners(At(tetrahedrons, c)) => ~IsStrictlyInside(c, v)

\* C3 witness: a final mesh of several cells with a vertex that is a corner
\* of one cell and not of another, and that lies outside that other cell's
\* circumsphere.
C3_Witness ==
    /\ Built
    /\ Len(tetrahedrons) >= 2
    /\ \E c \in Cells : \E v \in 0..(Len(vertices) - 1) :
          /\ v \notin Corners(At(tetrahedrons, c))
          /\ LET sphere == GetTetrahedronCircumsphere(vertices, At(tetrahedrons, c))
             IN  sphere.D # 0 /\ SpherePower(sphere, At(vertices, v)) > 0

-----------------------------------------------------------------------------
(* The sampling call *)

\* A SampleAmbientSH call was made on the mesh and has not been returned.
Sampled == sample.outcome # "idle"

\* The weights of the sampled position at cell c.
WeightsAt(c) == GetInnerBarycentricCoords(vertices, At(tetrahedrons, c), sample.position)

\* The sampled position lies inside cell c: its four weights there are
\* non-negative.
IsInsideCell(c) == AllNonNegative(WeightsAt(c))

\* The sampled position lies strictly inside cell c.
IsStrictlyInsideCell(c) == WeightsAt(c).den # 0 /\ \A k \in 1..4 : WeightsAt(c).num[k] > 0

-----------------------------------------------------------------------------
(* C4 *)

\* C4: on a fully built mesh, a query whose position lies inside some cell
\* ends in the success branch, at a cell where its four weights are
\* non-negative, after at most (number of vertices) iterations, whatever
\* the incoming hint.
C4_LocateSucceeds ==
    (Built /\ Sampled /\ \E c \in Cells : IsInsideCell(c)) =>
        /\ sample.outcome = "success"
        /\ sample.hint \in Cells
        /\ IsInsideCell(sample.hint)
        /\ sample.iterations <= Len(vertices)

\* C4, the walk alone: the same with the incoming hint a cell of the mesh,
\* so that no cell is read out of range.
C4_LocateSucceedsFromCell ==
    (Built /\ Sampled /\ sample.hintIn \in Cells
           /\ \E c \in Cells : IsStrictlyInsideCell(c)) =>
        sample.outcome = "success"

\* C4, the failing query: the position is the centroid of a cell, the hint
\* names another cell, and the walk leaves the mesh at its first step.
C4_Witness ==
    /\ Built
    /\ sample.outcome = "none"
    /\ sample.hintIn \in Cells
    /\ sample.iterations = 1
    /\ \E c \in Cells :
          /\ sample.position = Centroid(vertices, At(tetrahedrons, c))
          /\ IsStrictlyInsideCell(c)

-----------------------------------------------------------------------------
(* C5 *)

\* The walk ran its full number of iterations, at least one, without a
\* success and without stepping onto M_MAX_UNSIGNED.
HitIterationCap == sample.outcome = "cap" /\ sample.iterations > 0

\* C5: a query that runs into the iteration cap is a failure the caller
\* can tell from a success (the hint names no cell, as after a step onto
\* M_MAX_UNSIGNED), and SampleAmbientSH returns the zero value and blends
\* no cell.
C5_CapIsFailure ==
    HitIterationCap =>
        /\ sample.hint \notin Cells
        /\ sample.blendCell = M_MAX_UNSIGNED
        /\ sample.value = ZeroValue(lightProbes)

\* C5, the part that holds: the weights returned at the cap are those of
\* the last cell evaluated and are not all non-negative.
C5_CapWeightsNotAllNonNegative ==
    HitIterationCap => ~AllNonNegative(sample.weights)

\* C5, the failing query: the walk used up its iterations, the hint names
\* a cell, and the value is a blend of that cell's entries with weights that
\* were evaluated at another cell.
C5_Witness ==
    /\ Built
    /\ HitIterationCap
    /\ sample.iterations = Len(lightProbes)
    /\ sample.hint \in Cells
    /\ sample.blendCell = sample.hint
    /\ sample.value # ZeroValue(lightProbes)
    /\ sample.weights # WeightsAt(sample.hint)

-----------------------------------------------------------------------------
(* C6 *)

\* The slots (0..3) of the smallest weight of a walk step.
SmallestSlots(w) ==
    {k \in 0..3 : \A j \in 0..3 : w.num[k + 1] <= w.num[j + 1]}

\* A walk step in which two or more weights are equal and smallest.
IsTiedStep(step) ==
    step.weights.den # 0 /\ Cardinality(SmallestSlots(step.weights)) >= 2

StepsOfSample == {sample.steps[n] : n \in 1..Len(sample.steps)}

\* C6 as stated: in a walk step with two or more weights tied for the
\* smallest, the walk steps through the slot of the lowest-index one.
C6_LowestTiedSlot ==
    \A step \in StepsOfSample :
        IsTiedStep(step) =>
            \A k \in SmallestSlots(step.weights) : step.slot <= k

\* C6, amended: in a walk step with two or more weights tied for the
\* smallest, the walk steps through the slot of the highest-index one.
C6_HighestTiedSlot ==
    \A step \in StepsOfSample :
        IsTiedStep(step) =>
            /\ step.slot \in SmallestSlots(step.weights)
            /\ \A k \in SmallestSlots(step.weights) : step.slot >= k

\* C6 witness: a query took a step in which slots 0 and 1 were tied for
\* the smallest weight, and another in which slots 2 and 3 were.
C6_Witness ==
    /\ \E step \in StepsOfSample :
          IsTiedStep(step) /\ SmallestSlots(step.weights) = {0, 1}
    /\ \E step \in StepsOfSample :
          IsTiedStep(step) /\ SmallestSlots(step.weights) = {2, 3}

-----------------------------------------------------------------------------
(* C7 *)

\* C7: a walk that steps onto M_MAX_UNSIGNED leaves the hint at
\* M_MAX_UNSIGNED, a value no success leaves (a success leaves the index of
\* a cell), and SampleAmbientSH returns the zero value and reads no cell and
\* no payload entry for it.
C7_OffHullIsSentinelAndZero ==
    /\ sample.outcome = "none" =>
          /\ sample.hint = M_MAX_UNSIGNED
          /\ sample.hint \notin Cells
          /\ sample.blendCell = M_MAX_UNSIGNED
          /\ sample.value = ZeroValue(lightProbes)
          /\ (pc = "idle" => hint = M_MAX_UNSIGNED)
    /\ sample.outcome = "success" =>
          sample.hint \in Cells /\ sample.hint # M_MAX_UNSIGNED

\* C7 witness: a query on a built mesh with cells walked two or more cells
\* and stepped off the hull with weights that are not zero.
C7_Witness ==
    /\ Built
    /\ sample.outcome = "none"
    /\ sample.iterations >= 2
    /\ sample.weights.num # <<0, 0, 0, 0>>
    /\ hint = M_MAX_UNSIGNED

-----------------------------------------------------------------------------
(* C8 *)

\* The weight the returned value gives the payload entry of probe k, the
\* weights w being paired slot by slot with the vertices of cell c.
PairedWeight(c, w, k) ==
    LET slots == {i \in 1..4 : At(tetrahedrons, c).indices[i] = k}
    IN  IF slots = {} THEN 0 ELSE w.num[CHOOSE i \in slots : TRUE]

\* C8: a query that returns through the success branch leaves the hint at
\* the cell where the returned weights were evaluated, the four weights are
\* non-negative, and the value blends the payload entries of that cell's
\* four vertices, weight i with vertex i, and no other entry.
C8_SuccessBlendsTheCell ==
    sample.outcome = "success" =>
        /\ sample.hint \in Cells
        /\ (pc = "idle" => hint = sample.hint)
        /\ sample.weights = WeightsAt(sample.hint)
        /\ \A i \in 1..4 : sample.weights.num[i] >= 0
        /\ sample.weights.den > 0
        /\ sample.blendCell = sample.hint
        /\ Cardinality(Corners(At(tetrahedrons, sample.hint))) = 4
        /\ sample.value.den = sample.weights.den
        /\ \A k \in 0..(Len(lightProbes) - 1) :
              sample.value.coeff[k + 1] = PairedWeight(sample.hint, sample.weights, k)

\* C8 witness: a query succeeded after walking, at a cell other than the
\* one it started from, with weights of three or more different values.
C8_Witness ==
    /\ sample.outcome = "success"
    /\ sample.iterations >= 2
    /\ sample.hint # sample.hintIn
    /\ Cardinality({sample.weights.num[i] : i \in 1..4}) >= 3

-----------------------------------------------------------------------------
(* C9 *)

\* Define was called on a single point.
IsSinglePoint == Len(positions) = 1

-----------------------------------------------------------------------------
(* C10 *)

\* The mesh holds the super-mesh: the 8 corner vertices and cells on them.
HoldsSuperMesh ==
    /\ Len(vertices) >= numVertices
    /\ \E c \in Cells : TouchesSuperMesh(At(tetrahedrons, c))

\* The mesh holds a point that was pushed and not triangulated.
HoldsPartialPoint ==
    /\ Len(vertices) = numVertices + cursor + 1
    /\ \A c \in Cells : (Len(vertices) - 1) \notin Corners(At(tetrahedrons, c))

\* C10: when an insertion finds no bad cell, or a hole that is not closed,
\* Define does not return leaving a mesh with the super-mesh vertices,
\* unculled cells or the partially inserted point.
C10_AbortLeavesNoMesh ==
    (Returned /\ aborted) => (~HoldsSuperMesh /\ ~HoldsPartialPoint)

\* C10, the failing build: Define returned through the early return of the
\* insertion loop, and the mesh holds the 5 super-mesh cells, the 8 corner
\* vertices and the point.
C10_Witness ==
    /\ Returned
    /\ aborted
    /\ Len(tetrahedrons) = numTetrahedrons
    /\ HoldsSuperMesh
    /\ HoldsPartialPoint

-----------------------------------------------------------------------------
(* C11 *)

\* The hull faces of the mesh: the (cell, slot) pairs whose neighbour is
\* M_MAX_UNSIGNED.
HullFaces ==
    {f \in Cells \X (1..4) : At(tetrahedrons, f[1]).neighbors[f[2]] = M_MAX_UNSIGNED}

\* The three edges of a hull face, each a set of two vertex indices.
HullFaceEdges(f) ==
    LET corners == OppositeFace(At(tetrahedrons, f[1]), f[2])
    IN  {e \in SUBSET corners : Cardinality(e) = 2}

\* The hull faces that edge e belongs to.
HullFacesOnEdge(e) == {f \in HullFaces : e \in HullFaceEdges(f)}

\* C11: after Define completes, every edge of a hull face belongs to
\* exactly two hull faces.
C11_HullIsClosedManifold ==
    Built =>
        \A f \in HullFaces : \A e \in HullFaceEdges(f) :
            Cardinality(HullFacesOnEdge(e)) = 2

\* C11, the failing build: the final mesh is two cells that hold no
\* neighbour and share an edge, which then belongs to four hull faces.
C11_Witness ==
    /\ Built
    /\ Len(tetrahedrons) = 2
    /\ HullFaces = Cells \X (1..4)
    /\ \E f \in HullFaces : \E e \in HullFaceEdges(f) :
          Cardinality(HullFacesOnEdge(e)) = 4

-----------------------------------------------------------------------------
(* C12 *)

\* C12: after Define completes on n points, the mesh has n vertices,
\* vertex k is the k-th input point, and every vertex index of every cell
\* lies in 0..n-1.
C12_VerticesAreTheInput ==
    Built =>
        /\ Len(vertices) = Len(positions)
        /\ \A k \in 1..Len(positions) : vertices[k] = positions[k]
        /\ \A c \in Cells : \A j \in 1..4 :
              At(tetrahedrons, c).indices[j] \in 0..(Len(positions) - 1)

\* C12 witness: a final mesh with cells, built from five or more points
\* of which one is a corner of no cell.
C12_Witness ==
    /\ Built
    /\ Len(positions) >= 5
    /\ Len(tetrahedrons) >= 2
    /\ \E k \in 0..(Len(vertices) - 1) :
          \A c \in Cells : k \notin Corners(At(tetrahedrons, c))

-----------------------------------------------------------------------------
(* C13 *)

\* C13: every query ends after evaluating the weights at most (number of
\* vertices) times, whatever the mesh, the position and the incoming hint.
C13_WalkIsBounded ==
    Sampled =>
        /\ sample.iterations <= Len(vertices)
        /\ sample.iterations <= Len(lightProbes)
        /\ Len(sample.steps) <= sample.iterations

\* C13 witness: a walk that was still going from cell to cell when the cap
\* ended it, after as many evaluations as the mesh has vertices.
C13_Witness ==
    /\ Built
    /\ sample.outcome = "cap"
    /\ sample.iterations = Len(vertices)
    /\ Len(sample.steps) = Len(vertices)
    /\ Len(vertices) >= 5

(***************************************************************************)
(* C14: queries write nothing but the caller's hint                        *)
(***************************************************************************)

\* What a call returns is what SampleAmbientSH computes from the mesh, the
\* position and the hint the caller passed.
IsOwnResult(r) ==
    r # NoSample =>
        r = SampleAmbientSHResult(lightProbes, vertices, tetrahedrons,
                                  r.position, r.hintIn)

\* A step in which the first caller's call returns a new result.
FirstQueried == sample' # sample /\ sample' # NoSample

\* A step in which the second caller's call returns a new result.
OtherQueried == otherSample' # otherSample /\ otherSample' # NoSample

\* C14: a query leaves the vertices, the cells with their neighbor links,
\* the hull normals and the payload collection as they were and writes only
\* the hint of the caller that made it; so, whatever the order in which two
\* callers with hints of their own query one built mesh, each call returns
\* the value and leaves the hint that the mesh, its position and the caller's
\* own hint determine, and each caller's hint is moved by its own calls only.
C14_QueriesWriteOnlyOwnHint ==
    /\ [](IsOwnResult(sample) /\ IsOwnResult(otherSample))
    /\ [][/\ FirstQueried =>
                /\ UNCHANGED meshVars
                /\ UNCHANGED <<otherHint, otherSample>>
                /\ sample'.hintIn \in {hint} \cup SeedHints
                /\ hint' = sample'.hint
                /\ pc' = pc
          /\ OtherQueried =>
                /\ UNCHANGED meshVars
                /\ UNCHANGED <<hint, sample>>
                /\ otherSample'.hintIn \in {otherHint} \cup SeedHints
                /\ otherHint' = otherSample'.hint
                /\ pc' = pc
          /\ hint' # hint => FirstQueried
          /\ otherHint' # otherHint => OtherQueried]_vars

\* The same with the calls that read tetrahedrons_ past its end left aside:
\* every other call writes only its caller's hint and returns what the mesh,
\* the position and the caller's hint determine.
C14_InRangeQueriesWriteOnlyOwnHint ==
    /\ [](IsOwnResult(sample) /\ IsOwnResult(otherSample))
    /\ [][/\ FirstQueried =>
                /\ UNCHANGED meshVars
                /\ UNCHANGED <<otherHint, otherSample>>
                /\ sample'.hintIn \in {hint} \cup SeedHints
                /\ sample'.outcome # "range" => hint' = sample'.hint /\ pc' = pc
          /\ OtherQueried =>
                /\ UNCHANGED meshVars
                /\ UNCHANGED <<hint, sample>>
                /\ otherSample'.hintIn \in {otherHint} \cup SeedHints
                /\ otherSample'.outcome # "range" =>
                       otherHint' = otherSample'.hint /\ pc' = pc
          /\ hint' # hint => FirstQueried
          /\ otherHint' # otherHint => OtherQueried]_vars

\* C14 witness: on a built mesh of two cells the first caller's hint rests
\* on a cell, and the second caller's call, started from a hint that names a
\* payload entry but no cell, has read tetrahedrons_ past its end.
C14_Witness ==
    /\ Returned
    /\ Len(tetrahedrons) = 2
    /\ hint \in Cells
    /\ otherSample.outcome = "range"
    /\ otherSample.hintIn \in Len(tetrahedrons)..(Len(lightProbes) - 1)

(***************************************************************************)
(* C15: sampling the reset component                                       *)
(***************************************************************************)

\* No probe positions are held: ResetLightProbes ran last, on its own or as
\* the opening of a CompileLightProbes that collected no probes.
HoldsNoProbes == positions = <<>>

\* C15: once reset, the mesh has no vertices, no cells and no hull normals
\* and the payload collection is empty, and every SampleAmbientSH call,
\* whatever hint it is given, returns the zero value after evaluating no
\* weights and reading no cell, the hint left at 0.
C15_ResetSamplesFallback ==
    HoldsNoProbes =>
        /\ IsReset
        /\ Sampled =>
            /\ sample.outcome = "cap"
            /\ sample.iterations = 0
            /\ sample.steps = <<>>
            /\ sample.blendCell = M_MAX_UNSIGNED
            /\ sample.value = ZeroValue(lightProbes)
            /\ sample.hint = 0
            /\ hint = 0

\* C15 witness: a call on the reset component with the hint a caller carried
\* over from a mesh that had more cells than any seeded hint names.
C15_Witness ==
    /\ HoldsNoProbes
    /\ IsReset
    /\ Sampled
    /\ sample.hintIn > MaxSeed
    /\ sample.hintIn # M_MAX_UNSIGNED
    /\ sample.value = ZeroValue(lightProbes)

(***************************************************************************)
(* C16: the bad set and the hole surface of an insertion                   *)
(***************************************************************************)

\* The last pass of the insertion loop found a first bad cell and searched.
Searched == insertion.outcome \in {"ok", "open", "lost"}

\* The cells stored when the pass began.
CellsBefore == 0..(Len(insertion.tetrahedrons) - 1)

\* The bad cells the pass collected, and the first of them.
BadSet == {insertion.badCells[k] : k \in 1..Len(insertion.badCells)}

SeedCell == insertion.badCells[1]

\* The circumsphere of cell c, as the pass began, holds the inserted point.
HoldsPoint(c) ==
    IsInside(GetTetrahedronCircumsphere(insertion.vertices,
                                        At(insertion.tetrahedrons, c)),
             insertion.position)

\* The cells that hold the point and are a neighbour of a cell of the set.
HoldingNeighbors(set) ==
    {n \in CellsBefore :
        /\ HoldsPoint(n)
        /\ \E c \in set : HasNeighbor(At(insertion.tetrahedrons, c), n)}

\* The set closed under stepping to a neighbour that holds the point.
RECURSIVE ReachableFrom(_)
ReachableFrom(set) ==
    IF HoldingNeighbors(set) \subseteq set THEN set
    ELSE ReachableFrom(set \cup HoldingNeighbors(set))

\* The (bad cell, neighbour slot) pairs whose neighbour is M_MAX_UNSIGNED or
\* a cell that is not bad.
HolePairs ==
    {p \in BadSet \X (0..3) :
        At(At(insertion.tetrahedrons, p[1]).neighbors, p[2]) \notin BadSet}

\* The face the search records for such a pair.
HoleFaceOf(p) ==
    LET cell == At(insertion.tetrahedrons, p[1])
        outer == At(cell.neighbors, p[2])
    IN  IF outer = M_MAX_UNSIGNED
        THEN GetTriangleFace(cell, p[2], M_MAX_UNSIGNED, M_MAX_UNSIGNED)
        ELSE GetTriangleFace(At(insertion.tetrahedrons, outer),
                             FindNeighbor(At(insertion.tetrahedrons, outer), p[1]),
                             outer,
                             FindNeighbor(At(insertion.tetrahedrons, outer), p[1]))

\* The faces two bad cells share.
InnerFaces ==
    {OppositeFace(At(insertion.tetrahedrons, p[1]), p[2] + 1) :
        p \in (BadSet \X (0..3)) \ HolePairs}

\* C16: in every insertion the bad set is the seed cell together with every
\* cell reached from it over neighbour links through cells whose circumsphere
\* holds the point, each cell once; the hole surface has exactly one face for
\* every (bad cell, slot) pair whose neighbour is missing or not bad, and no
\* face that two bad cells share.
C16_BadSetAndHoleSurface ==
    Searched =>
        /\ Len(insertion.badCells) = Cardinality(BadSet)
        /\ HoldsPoint(SeedCell)
        /\ BadSet = ReachableFrom({SeedCell})
        /\ Len(insertion.faces) = Cardinality(HolePairs)
        /\ \A p \in HolePairs :
              Cardinality({i \in 1..Len(insertion.faces) :
                              insertion.faces[i] = HoleFaceOf(p)}) = 1
        /\ \A i \in 1..Len(insertion.faces) :
              {insertion.faces[i].indices[k] : k \in 1..3} \notin InnerFaces

\* C16 witness: an insertion whose bad set of at least three cells was
\* collected over more than one link from the seed, with hole faces on outer
\* cells and on missing neighbours and with faces shared by two bad cells.
C16_Witness ==
    /\ insertion.outcome = "ok"
    /\ Len(insertion.badCells) >= 3
    /\ \E c \in BadSet : ~HasNeighbor(At(insertion.tetrahedrons, SeedCell), c) /\ c # SeedCell
    /\ InnerFaces # {}
    /\ \E i \in 1..Len(insertion.faces) : insertion.faces[i].tetIndex = M_MAX_UNSIGNED
    /\ \E i \in 1..Len(insertion.faces) : insertion.faces[i].tetIndex # M_MAX_UNSIGNED

(***************************************************************************)
(* C17: the cells an insertion creates                                     *)
(***************************************************************************)

\* The last pass of the insertion loop created its cells, and the mesh is as
\* the pass left it.
Inserted == insertion.outcome = "ok" /\ pc \in {"adding", "crashed"}

\* The index of the vertex the pass inserted.
InsertedIndex == Len(insertion.vertices) - 1

\* The slot of the cell created on hole face i: the i-th bad cell, or, past
\* the bad cells, the next slot appended to the cell array.
NewCellSlot(i) ==
    IF i < Len(insertion.badCells) THEN At(insertion.badCells, i)
    ELSE Len(insertion.tetrahedrons) + (i - Len(insertion.badCells))

HoleFaceIndices == 0..(Len(insertion.faces) - 1)

\* C17: an insertion of point P leaves exactly one new cell per hole face:
\* the cell holds the face's three vertices in slots 0..2 and P in slot 3 and
\* names in slot 3 the outer cell recorded for the face (or none), and that
\* outer cell's recorded slot names the new cell; the new cells take the bad
\* cells' slots in order, and the cell array grows only by the number of
\* faces the hole has beyond its bad cells.
C17_OneNewCellPerHoleFace ==
    Inserted =>
        /\ \A i \in HoleFaceIndices :
            LET face == At(insertion.faces, i)
                cell == At(tetrahedrons, NewCellSlot(i))
            IN  /\ cell.indices = <<face.indices[1], face.indices[2], face.indices[3],
                                    InsertedIndex>>
                /\ cell.neighbors[4] = face.tetIndex
                /\ face.tetIndex # M_MAX_UNSIGNED =>
                       At(At(tetrahedrons, face.tetIndex).neighbors, face.tetFace)
                           = NewCellSlot(i)
        /\ {c \in Cells : InsertedIndex \in Corners(At(tetrahedrons, c))}
               = {NewCellSlot(i) : i \in HoleFaceIndices}
        /\ Cardinality({NewCellSlot(i) : i \in HoleFaceIndices}) = Len(insertion.faces)
        /\ Len(tetrahedrons) =
               Len(insertion.tetrahedrons)
                 + (IF Len(insertion.faces) > Len(insertion.badCells)
                    THEN Len(insertion.faces) - Len(insertion.badCells) ELSE 0)

\* C17 witness: an insertion with at least two bad cells and more hole faces
\* than bad cells, so that cells were created both on bad cells' slots and
\* on appended slots, some on an outer cell and some on a missing neighbour.
C17_Witness ==
    /\ Inserted
    /\ Len(insertion.badCells) >= 2
    /\ Len(insertion.faces) > Len(insertion.badCells)
    /\ Len(tetrahedrons) > Len(insertion.tetrahedrons)
    /\ \E i \in HoleFaceIndices : At(insertion.faces, i).tetIndex # M_MAX_UNSIGNED
    /\ \E i \in HoleFaceIndices : At(insertion.faces, i).tetIndex = M_MAX_UNSIGNED

(***************************************************************************)
(* C18: the walk steps through a smallest weight                           *)
(***************************************************************************)

\* C18: every step of a walk leaves a cell in which some weight is negative
\* and goes through the neighbour slot of a weight that is the minimum of
\* the four; no step goes through the slot of a weight that is not minimal.
C18_StepsThroughMinimum ==
    Sampled =>
        \A step \in StepsOfSample :
            /\ step.weights.den > 0
            /\ \E k \in 1..4 : step.weights.num[k] < 0
            /\ step.slot \in SmallestSlots(step.weights)
            /\ \A j \in 1..4 :
                  step.weights.num[step.slot + 1] <= step.weights.num[j]

\* C18 witness: one walk took steps through slots 0, 1 and 2, each the slot
\* of the only smallest weight of its cell, that weight not being the only
\* negative one in at least one of them.
C18_Witness ==
    /\ Sampled
    /\ \A k \in 0..2 : \E step \in StepsOfSample :
          step.slot = k /\ SmallestSlots(step.weights) = {k}
    /\ \E step \in StepsOfSample :
          Cardinality({k \in 1..4 : step.weights.num[k] < 0}) >= 2

(***************************************************************************)
(* C19: the cells a walk reads                                             *)
(***************************************************************************)

\* A build ran to its end and left at least one vertex.
BuiltWithVertices == positions # <<>> /\ ~aborted /\ pc # "adding" /\ Len(vertices) >= 1

\* C19: on a fully built mesh with at least one vertex, whatever hint comes
\* in, the walk evaluates weights and reads neighbour links only at indices
\* below the number of cells, also when the mesh has fewer cells than
\* vertices or none.
C19_CellAccessInRange ==
    BuiltWithVertices /\ Sampled =>
        /\ sample.outcome # "range"
        /\ \A step \in StepsOfSample : step.cell \in Cells

\* C19 witness: the first query, with hint 0, on the mesh of a single probe,
\* which has one vertex and no cell: hint 0 passes the test against the one
\* payload entry and cell 0 is read.
C19_Witness ==
    /\ BuiltWithVertices
    /\ Len(vertices) = 1
    /\ Len(lightProbes) = 1
    /\ tetrahedrons = <<>>
    /\ sample.hintIn = 0
    /\ sample.outcome = "range"
    /\ sample.hint = 0
    /\ sample.iterations = 0

(***************************************************************************)
(* C20: bad cell slots that are not reused                                 *)
(***************************************************************************)

\* The bad cells of the last pass whose slots no new cell took: the hole had
\* fewer faces than bad cells.
UnusedBadCells ==
    {At(insertion.badCells, i) :
        i \in Len(insertion.faces)..(Len(insertion.badCells) - 1)}

\* The cells that were flagged when the last pass began.
FlaggedBefore == {c \in CellsBefore : At(insertion.badFlags, c)}

\* What the culling loop makes of the mesh as it stands.
Culled == CullCells(tetrahedrons, badFlags)

\* C20: the bad cell slots an insertion does not reuse stay flagged bad for
\* the rest of the build; no later insertion takes a flagged cell as its
\* seed or into its bad set; no unflagged cell names a flagged cell in a
\* neighbour slot; and when all points are inserted the final pass culls
\* every flagged cell and the assertion of the renumber loop holds: no
\* surviving cell names a culled one.
C20_UnusedBadCellsStayOut ==
    /\ Inserted /\ Building =>
          /\ \A c \in UnusedBadCells : At(badFlags, c)
          /\ \A c \in FlaggedBefore : At(badFlags, c)
    /\ Searched => BadSet \cap FlaggedBefore = {}
    /\ Building =>
          \A c \in Cells : ~At(badFlags, c) =>
              \A j \in 1..4 :
                  At(tetrahedrons, c).neighbors[j] # M_MAX_UNSIGNED =>
                      ~At(badFlags, At(tetrahedrons, c).neighbors[j])
    /\ Building /\ cursor = Len(positions) =>
          /\ \A c \in Cells : At(badFlags, c) => At(Culled.badFlags, c)
          /\ Len(RenumberCells(Culled.tetrahedrons, Culled.badFlags))
                 = Cardinality({c \in Cells : ~At(Culled.badFlags, c)})
          /\ ~RenumberAssertFails(Culled.tetrahedrons, Culled.badFlags)

\* C20 witness: the last point has been inserted; a cell left flagged by an
\* earlier insertion, whose circumsphere holds the point just inserted, was
\* kept out of that insertion's bad set, and the mesh is about to be culled
\* with cells that survive.
C20_Witness ==
    /\ Building
    /\ Inserted
    /\ cursor = Len(positions)
    /\ \E c \in FlaggedBefore : HoldsPoint(c) /\ c \notin BadSet /\ At(badFlags, c)
    /\ \E c \in Cells : ~At(Culled.badFlags, c)

(***************************************************************************)
(* C21: a call that comes in with a hint that names no payload entry       *)
(***************************************************************************)

\* The last call came in with M_MAX_UNSIGNED, as a walk that left the hull
\* leaves it, or with another hint not below the number of payload entries.
CameInPastTheEnd == Sampled /\ sample.hintIn >= Len(lightProbes)

\* What the same call returns when it comes in with hint 0.
SampleFromZero ==
    SampleAmbientSHResult(lightProbes, vertices, tetrahedrons, sample.position, 0)

\* C21: a call whose incoming hint is M_MAX_UNSIGNED, or any value not below
\* the number of vertices, restarts at cell 0: it reads cells of the mesh
\* only and returns the weights and leaves the hint that the same call with
\* hint 0 returns and leaves.
C21_PastTheEndRestartsAtZero ==
    CameInPastTheEnd =>
        /\ sample.outcome # "range"
        /\ sample.weights = SampleFromZero.weights
        /\ sample.hint = SampleFromZero.hint
        /\ sample.value = SampleFromZero.value
        /\ hint = SampleFromZero.hint

\* The same on the meshes that have a cell 0 to restart from, and on the
\* reset component: there the restart reads cells of the mesh only.
C21_PastTheEndRestartsAtZeroOnCells ==
    CameInPastTheEnd /\ (tetrahedrons # <<>> \/ lightProbes = <<>>) =>
        /\ sample.outcome # "range"
        /\ sample.weights = SampleFromZero.weights
        /\ sample.hint = SampleFromZero.hint
        /\ sample.value = SampleFromZero.value
        /\ hint = SampleFromZero.hint

\* C21 witness: on a built mesh that has vertices and no cell, a call came
\* in with M_MAX_UNSIGNED, restarted at 0 and read cell 0, which is not
\* there.
C21_Witness ==
    /\ BuiltWithVertices
    /\ tetrahedrons = <<>>
    /\ sample.hintIn = M_MAX_UNSIGNED
    /\ sample.outcome = "range"
    /\ sample.hint = 0
    /\ sample.iterations = 0
=========================================================================
